---------------------------- MODULE Spec2Model ----------------------------
(***************************************************************************)
(* Model of hal/src/common/dmac/dma_controller.rs (samd21 build, six DMA   *)
(* channels): the DmaController lifecycle init / level_x_enabled /         *)
(* level_x_round_robin / split / free, statement by statement, together    *)
(* with the DMAC hardware's completion of a software reset.                *)
(*                                                                         *)
(* Registers are records of their named PAC fields; `modify` rewrites one  *)
(* field of the value it read, `write` replaces the whole register.        *)
(***************************************************************************)
EXTENDS Naturals, Sequences, FiniteSets

VARIABLES
    pc,          \* position of the (single-threaded) caller
    dmac,        \* the DMAC register block: ctrl, prictrl0, baseaddr, wrbaddr
    pm,          \* the PM clock masks' dmac_ bits
    WRITEBACK,   \* the static writeback table, one slot per channel
    handles,     \* per channel index: number of live Channel handles
    ret,         \* the Channels value returned by the latest split (<<>>: none)
    nsplit,      \* calls of split on the current DmaController instance
    swrst_read,  \* the value of ctrl.swrst last read by swreset's loop
    rt           \* observer of an enable-then-disable round trip

vars == <<pc, dmac, pm, WRITEBACK, handles, ret, nsplit, swrst_read, rt>>

\* Most live handles per channel index the model follows.
MaxHandles == 2

Levels == 0 .. 3

-----------------------------------------------------------------------------
(* Static tables and their addresses                                       *)

\* DESCRIPTOR_SECTION.as_ptr() as u32 / WRITEBACK.as_ptr() as u32: the
\* addresses of the two statics (symbolic; they never change).
DescriptorSectionAddr == "DESCRIPTOR_SECTION"
WritebackAddr == "WRITEBACK"

\* The handles of struct Channels, in field order.
Channels ==
    << [id |-> 0, state |-> "Uninitialized"],
       [id |-> 1, state |-> "Uninitialized"],
       [id |-> 2, state |-> "Uninitialized"],
       [id |-> 3, state |-> "Uninitialized"],
       [id |-> 4, state |-> "Uninitialized"],
       [id |-> 5, state |-> "Uninitialized"] >>

NumChannels == Len(Channels)
ChannelIds == 0 .. (NumChannels - 1)

\* An all-zero descriptor: the content of a writeback slot never used.
ZeroDescriptor ==
    [btctrl |-> 0, btcnt |-> 0, srcaddr |-> 0, dstaddr |-> 0, descaddr |-> 0]

WritebackInit == [i \in ChannelIds |-> ZeroDescriptor]

-----------------------------------------------------------------------------
(* Register contents                                                       *)

CtrlReset ==
    [swrst |-> FALSE, dmaenable |-> FALSE, crcenable |-> FALSE,
     lvlen0 |-> FALSE, lvlen1 |-> FALSE, lvlen2 |-> FALSE, lvlen3 |-> FALSE]

\* prictrl0 holds the four round-robin bits the driver names and, between
\* them, the four LVLPRI fields, which no line of the driver reads or writes
\* by name: a modify carries them along, the hardware reset zeroes them.
\* They are kept as one field lvlpri that tells apart what those operations
\* can tell apart: "ZERO" (all four fields 0, the reset value) and "NONZERO"
\* (any other content, the same content until a reset).
LvlpriContents == {"ZERO", "NONZERO"}

Prictrl0Reset ==
    [rrlvlen0 |-> FALSE, rrlvlen1 |-> FALSE, rrlvlen2 |-> FALSE, rrlvlen3 |-> FALSE,
     lvlpri |-> "ZERO"]

DmacReset ==
    [ctrl |-> CtrlReset, prictrl0 |-> Prictrl0Reset,
     baseaddr |-> "NULL", wrbaddr |-> "NULL"]

\* Register contents the PAC's DMAC object may hold when it is handed to init:
\* init takes any DMAC and checks nothing.  ctrl: every combination of its
\* seven bits.  prictrl0: every combination of the four round-robin bits,
\* with the LVLPRI fields zero or not.  baseaddr, wrbaddr: every pair of the
\* four addresses the model tells apart.  The parts are combined freely.
PriorCtrl ==
    [swrst : BOOLEAN, dmaenable : BOOLEAN, crcenable : BOOLEAN,
     lvlen0 : BOOLEAN, lvlen1 : BOOLEAN, lvlen2 : BOOLEAN, lvlen3 : BOOLEAN]

PriorPrictrl0 ==
    [rrlvlen0 : BOOLEAN, rrlvlen1 : BOOLEAN, rrlvlen2 : BOOLEAN, rrlvlen3 : BOOLEAN,
     lvlpri : LvlpriContents]

Addrs == {"NULL", "OTHER", DescriptorSectionAddr, WritebackAddr}

PriorAddrs == Addrs \X Addrs

PriorDmac ==
    { [ctrl |-> c, prictrl0 |-> q, baseaddr |-> a[1], wrbaddr |-> a[2]]
      : c \in PriorCtrl, q \in PriorPrictrl0, a \in PriorAddrs }

PriorPm == { [ahbmask_dmac |-> a, apbbmask_dmac |-> b] : a \in BOOLEAN, b \in BOOLEAN }

\* The four level-enable bits and the four round-robin bits, by level.
lvlen(ctrl) == [i \in Levels |->
    CASE i = 0 -> ctrl.lvlen0 [] i = 1 -> ctrl.lvlen1
      [] i = 2 -> ctrl.lvlen2 [] i = 3 -> ctrl.lvlen3]

rrlvlen(prictrl0) == [i \in Levels |->
    CASE i = 0 -> prictrl0.rrlvlen0 [] i = 1 -> prictrl0.rrlvlen1
      [] i = 2 -> prictrl0.rrlvlen2 [] i = 3 -> prictrl0.rrlvlen3]

-----------------------------------------------------------------------------
(* Observer of a round trip: enable every level of a mask m, then disable  *)
(* every level of m.  It watches the calls and never restricts them; a     *)
(* call that is not the next step of the round trip ends the observation.  *)

RtNone == [kind |-> "none", phase |-> "none", m |-> {}, todo |-> {}, pre |-> DmacReset]

Observe(r, kind, i, enabled) ==
    IF r.kind = kind /\ r.phase = "on" /\ enabled /\ i \in r.todo
    THEN IF r.todo = {i}
         THEN [r EXCEPT !.phase = "off", !.todo = r.m]
         ELSE [r EXCEPT !.todo = r.todo \ {i}]
    ELSE IF r.kind = kind /\ r.phase = "off" /\ ~enabled /\ i \in r.todo
    THEN IF r.todo = {i}
         THEN [r EXCEPT !.phase = "done", !.todo = {}]
         ELSE [r EXCEPT !.todo = r.todo \ {i}]
    ELSE RtNone


-----------------------------------------------------------------------------
(* Initial state: the PAC's DMAC object, not yet handed to init            *)

Init ==
    /\ pc = "pac"
    /\ dmac \in PriorDmac
    /\ pm \in PriorPm
    /\ WRITEBACK = WritebackInit
    /\ handles = [i \in ChannelIds |-> 0]
    /\ ret = <<>>
    /\ nsplit = 0
    /\ swrst_read = FALSE
    /\ rt = RtNone

-----------------------------------------------------------------------------
(* DmaController::swreset, and the hardware's side of it                   *)

\* dmac.ctrl.modify(|_, w| w.swrst().set_bit())
swreset_set ==
    /\ pc \in {"init_swreset", "free_swreset"}
    /\ dmac' = [dmac EXCEPT !.ctrl.swrst = TRUE]
    /\ pc' = IF pc = "init_swreset" THEN "init_wait" ELSE "free_wait"
    /\ UNCHANGED <<pm, WRITEBACK, handles, ret, nsplit, swrst_read, rt>>

\* The loop's condition: dmac.ctrl.read().swrst().bit_is_set()
swreset_read ==
    /\ pc \in {"init_wait", "free_wait"}
    /\ swrst_read' = dmac.ctrl.swrst
    /\ pc' = IF pc = "init_wait" THEN "init_test" ELSE "free_test"
    /\ UNCHANGED <<dmac, pm, WRITEBACK, handles, ret, nsplit, rt>>

\* Mutant of swreset_test: the loop's condition inverted (bit_is_clear).
swreset_test_inverted ==
    /\ pc \in {"init_test", "free_test"}
    /\ pc' = IF ~swrst_read
             THEN (IF pc = "init_test" THEN "init_wait" ELSE "free_wait")
             ELSE (IF pc = "init_test" THEN "init_baseaddr" ELSE "free_apbbmask")
    /\ UNCHANGED <<dmac, pm, WRITEBACK, handles, ret, nsplit, swrst_read, rt>>

\* while <bit is set> {}: loop again, or leave swreset.  There is no other
\* way out of the loop.
swreset_test ==
    /\ pc \in {"init_test", "free_test"}
    /\ pc' = IF swrst_read
             THEN (IF pc = "init_test" THEN "init_wait" ELSE "free_wait")
             ELSE (IF pc = "init_test" THEN "init_baseaddr" ELSE "free_apbbmask")
    /\ UNCHANGED <<dmac, pm, WRITEBACK, handles, ret, nsplit, swrst_read, rt>>

\* The hardware completes a requested reset: the swrst bit reads clear, and
\* the registers are back at their reset values, or, for a request the DMAC
\* did not act on, as they were.
hw_reset ==
    /\ dmac.ctrl.swrst
    /\ \/ dmac' = DmacReset
       \/ dmac' = [dmac EXCEPT !.ctrl.swrst = FALSE]
    /\ UNCHANGED <<pc, pm, WRITEBACK, handles, ret, nsplit, swrst_read, rt>>

-----------------------------------------------------------------------------
(* DmaController::init                                                     *)

\* _pm.ahbmask.modify(|_, w| w.dmac_().set_bit())
init_ahbmask ==
    /\ pc \in {"pac", "freed"}
    /\ pm' = [pm EXCEPT !.ahbmask_dmac = TRUE]
    /\ pc' = "init_apbbmask"
    /\ UNCHANGED <<dmac, WRITEBACK, handles, ret, nsplit, swrst_read, rt>>

\* Mutant of init_apbbmask: clear_bit() in place of set_bit().
init_apbbmask_clears_bit ==
    /\ pc = "init_apbbmask"
    /\ pm' = [pm EXCEPT !.apbbmask_dmac = FALSE]
    /\ pc' = "init_swreset"
    /\ UNCHANGED <<dmac, WRITEBACK, handles, ret, nsplit, swrst_read, rt>>

\* _pm.apbbmask.modify(|_, w| w.dmac_().set_bit())
init_apbbmask ==
    /\ pc = "init_apbbmask"
    /\ pm' = [pm EXCEPT !.apbbmask_dmac = TRUE]
    /\ pc' = "init_swreset"
    /\ UNCHANGED <<dmac, WRITEBACK, handles, ret, nsplit, swrst_read, rt>>

\* Mutant of init_baseaddr: it writes the writeback table's address.
init_baseaddr_writes_wrb_address ==
    /\ pc = "init_baseaddr"
    /\ dmac' = [dmac EXCEPT !.baseaddr = WritebackAddr]
    /\ pc' = "init_wrbaddr"
    /\ UNCHANGED <<pm, WRITEBACK, handles, ret, nsplit, swrst_read, rt>>

\* dmac.baseaddr.write(|w| w.baseaddr().bits(DESCRIPTOR_SECTION.as_ptr() as u32))
init_baseaddr ==
    /\ pc = "init_baseaddr"
    /\ dmac' = [dmac EXCEPT !.baseaddr = DescriptorSectionAddr]
    /\ pc' = "init_wrbaddr"
    /\ UNCHANGED <<pm, WRITEBACK, handles, ret, nsplit, swrst_read, rt>>

\* Mutant of init_wrbaddr: it also links slot 0 of the writeback table.
init_wrbaddr_writes_table ==
    /\ pc = "init_wrbaddr"
    /\ dmac' = [dmac EXCEPT !.wrbaddr = WritebackAddr]
    /\ WRITEBACK' = [WRITEBACK EXCEPT ![0].descaddr = 1]
    /\ pc' = "init_lvlen"
    /\ UNCHANGED <<pm, handles, ret, nsplit, swrst_read, rt>>

\* dmac.wrbaddr.write(|w| w.wrbaddr().bits(WRITEBACK.as_ptr() as u32))
init_wrbaddr ==
    /\ pc = "init_wrbaddr"
    /\ dmac' = [dmac EXCEPT !.wrbaddr = WritebackAddr]
    /\ pc' = "init_lvlen"
    /\ UNCHANGED <<pm, WRITEBACK, handles, ret, nsplit, swrst_read, rt>>

\* Mutant of init_lvlen: level 0 is left out of the levels it enables.
init_lvlen_without_level_0 ==
    /\ pc = "init_lvlen"
    /\ dmac' = [dmac EXCEPT !.ctrl.lvlen3 = TRUE, !.ctrl.lvlen2 = TRUE,
                            !.ctrl.lvlen1 = TRUE]
    /\ pc' = "init_dmaenable"
    /\ UNCHANGED <<pm, WRITEBACK, handles, ret, nsplit, swrst_read, rt>>

\* dmac.ctrl.modify(|_, w| { w.lvlen3().set_bit(); ... w.lvlen0().set_bit() })
init_lvlen ==
    /\ pc = "init_lvlen"
    /\ dmac' = [dmac EXCEPT !.ctrl.lvlen3 = TRUE, !.ctrl.lvlen2 = TRUE,
                            !.ctrl.lvlen1 = TRUE, !.ctrl.lvlen0 = TRUE]
    /\ pc' = "init_dmaenable"
    /\ UNCHANGED <<pm, WRITEBACK, handles, ret, nsplit, swrst_read, rt>>

\* dmac.ctrl.modify(|_, w| w.dmaenable().set_bit()); Self { dmac }
init_dmaenable ==
    /\ pc = "init_dmaenable"
    /\ dmac' = [dmac EXCEPT !.ctrl.dmaenable = TRUE]
    /\ pc' = "ready"
    /\ nsplit' = 0
    /\ UNCHANGED <<pm, WRITEBACK, handles, ret, swrst_read, rt>>

-----------------------------------------------------------------------------
(* The eight toggles                                                       *)

\* What each toggle's `modify` makes of the register block d it reads:
\* reg.modify(|_, w| w.<field>().bit(enabled)) writes back the value read
\* with that one field replaced.
modify_lvlen0(d, enabled) == [d EXCEPT !.ctrl.lvlen0 = enabled]

\* Mutant of modify_lvlen1: the bit is flipped when enabled, kept otherwise.
modify_lvlen1_flips(d, enabled) ==
    [d EXCEPT !.ctrl.lvlen1 = (d.ctrl.lvlen1 # enabled)]

modify_lvlen1(d, enabled) == [d EXCEPT !.ctrl.lvlen1 = enabled]
modify_lvlen2(d, enabled) == [d EXCEPT !.ctrl.lvlen2 = enabled]
modify_lvlen3(d, enabled) == [d EXCEPT !.ctrl.lvlen3 = enabled]
modify_rrlvlen0(d, enabled) == [d EXCEPT !.prictrl0.rrlvlen0 = enabled]
modify_rrlvlen1(d, enabled) == [d EXCEPT !.prictrl0.rrlvlen1 = enabled]
modify_rrlvlen2(d, enabled) == [d EXCEPT !.prictrl0.rrlvlen2 = enabled]
modify_rrlvlen3(d, enabled) == [d EXCEPT !.prictrl0.rrlvlen3 = enabled]

\* Mutant of level_0_enabled: `write` in place of `modify`, so that every
\* other field of ctrl (dmaenable among them) gets its reset value.
level_0_enabled_by_write(enabled) ==
    /\ pc = "ready"
    /\ dmac' = [dmac EXCEPT !.ctrl = [CtrlReset EXCEPT !.lvlen0 = enabled]]
    /\ rt' = Observe(rt, "lvlen", 0, enabled)
    /\ UNCHANGED <<pc, pm, WRITEBACK, handles, ret, nsplit, swrst_read>>

level_0_enabled(enabled) ==
    /\ pc = "ready"
    /\ dmac' = modify_lvlen0(dmac, enabled)
    /\ rt' = Observe(rt, "lvlen", 0, enabled)
    /\ UNCHANGED <<pc, pm, WRITEBACK, handles, ret, nsplit, swrst_read>>

\* Mutant of level_1_enabled: it writes level 0's bit.
level_1_enabled_writes_lvlen0(enabled) ==
    /\ pc = "ready"
    /\ dmac' = [dmac EXCEPT !.ctrl.lvlen0 = enabled]
    /\ rt' = Observe(rt, "lvlen", 1, enabled)
    /\ UNCHANGED <<pc, pm, WRITEBACK, handles, ret, nsplit, swrst_read>>

level_1_enabled(enabled) ==
    /\ pc = "ready"
    /\ dmac' = modify_lvlen1(dmac, enabled)
    /\ rt' = Observe(rt, "lvlen", 1, enabled)
    /\ UNCHANGED <<pc, pm, WRITEBACK, handles, ret, nsplit, swrst_read>>

level_2_enabled(enabled) ==
    /\ pc = "ready"
    /\ dmac' = modify_lvlen2(dmac, enabled)
    /\ rt' = Observe(rt, "lvlen", 2, enabled)
    /\ UNCHANGED <<pc, pm, WRITEBACK, handles, ret, nsplit, swrst_read>>

\* Mutant of level_3_enabled: `write` in place of `modify`, so that every
\* other field of ctrl gets its reset value.
level_3_enabled_by_write(enabled) ==
    /\ pc = "ready"
    /\ dmac' = [dmac EXCEPT !.ctrl = [CtrlReset EXCEPT !.lvlen3 = enabled]]
    /\ rt' = Observe(rt, "lvlen", 3, enabled)
    /\ UNCHANGED <<pc, pm, WRITEBACK, handles, ret, nsplit, swrst_read>>

level_3_enabled(enabled) ==
    /\ pc = "ready"
    /\ dmac' = modify_lvlen3(dmac, enabled)
    /\ rt' = Observe(rt, "lvlen", 3, enabled)
    /\ UNCHANGED <<pc, pm, WRITEBACK, handles, ret, nsplit, swrst_read>>

level_0_round_robin(enabled) ==
    /\ pc = "ready"
    /\ dmac' = modify_rrlvlen0(dmac, enabled)
    /\ rt' = Observe(rt, "rrlvlen", 0, enabled)
    /\ UNCHANGED <<pc, pm, WRITEBACK, handles, ret, nsplit, swrst_read>>

level_1_round_robin(enabled) ==
    /\ pc = "ready"
    /\ dmac' = modify_rrlvlen1(dmac, enabled)
    /\ rt' = Observe(rt, "rrlvlen", 1, enabled)
    /\ UNCHANGED <<pc, pm, WRITEBACK, handles, ret, nsplit, swrst_read>>

\* Mutant of level_2_round_robin: set_bit() in place of bit(enabled).
level_2_round_robin_always_sets(enabled) ==
    /\ pc = "ready"
    /\ dmac' = [dmac EXCEPT !.prictrl0.rrlvlen2 = TRUE]
    /\ rt' = Observe(rt, "rrlvlen", 2, enabled)
    /\ UNCHANGED <<pc, pm, WRITEBACK, handles, ret, nsplit, swrst_read>>

level_2_round_robin(enabled) ==
    /\ pc = "ready"
    /\ dmac' = modify_rrlvlen2(dmac, enabled)
    /\ rt' = Observe(rt, "rrlvlen", 2, enabled)
    /\ UNCHANGED <<pc, pm, WRITEBACK, handles, ret, nsplit, swrst_read>>

level_3_round_robin(enabled) ==
    /\ pc = "ready"
    /\ dmac' = modify_rrlvlen3(dmac, enabled)
    /\ rt' = Observe(rt, "rrlvlen", 3, enabled)
    /\ UNCHANGED <<pc, pm, WRITEBACK, handles, ret, nsplit, swrst_read>>

-----------------------------------------------------------------------------
(* DmaController::split                                                    *)

\* Mutant of split_result: the three-channel variant's body.
split_result_three_channels == SubSeq(Channels, 1, 3)

\* Channels(new_chan(), new_chan(), new_chan(), new_chan(), new_chan(), new_chan())
split_result == Channels

\* split(&mut self) -> Channels: it reads and writes nothing of self, so every
\* call on an initialized controller returns a full set of handles.
split ==
    /\ pc = "ready"
    /\ \A i \in ChannelIds : handles[i] < MaxHandles
    /\ ret' = split_result
    /\ handles' = [i \in ChannelIds |->
                     handles[i] + Cardinality({k \in DOMAIN ret' : ret'[k].id = i})]
    /\ nsplit' = nsplit + 1
    /\ rt' = RtNone
    /\ UNCHANGED <<pc, dmac, pm, WRITEBACK, swrst_read>>

-----------------------------------------------------------------------------
(* DmaController::free                                                     *)

\* self.dmac.ctrl.modify(|_, w| w.dmaenable().clear_bit())
free_dmaenable ==
    /\ pc = "ready"
    /\ dmac' = [dmac EXCEPT !.ctrl.dmaenable = FALSE]
    /\ pc' = "free_swreset"
    /\ rt' = RtNone
    /\ UNCHANGED <<pm, WRITEBACK, handles, ret, nsplit, swrst_read>>

\* Mutant of free_apbbmask: set_bit() in place of clear_bit().
free_apbbmask_sets_bit ==
    /\ pc = "free_apbbmask"
    /\ pm' = [pm EXCEPT !.apbbmask_dmac = TRUE]
    /\ pc' = "free_ahbmask"
    /\ UNCHANGED <<dmac, WRITEBACK, handles, ret, nsplit, swrst_read, rt>>

\* _pm.apbbmask.modify(|_, w| w.dmac_().clear_bit())
free_apbbmask ==
    /\ pc = "free_apbbmask"
    /\ pm' = [pm EXCEPT !.apbbmask_dmac = FALSE]
    /\ pc' = "free_ahbmask"
    /\ UNCHANGED <<dmac, WRITEBACK, handles, ret, nsplit, swrst_read, rt>>

\* _pm.ahbmask.modify(|_, w| w.dmac_().clear_bit()); self.dmac
free_ahbmask ==
    /\ pc = "free_ahbmask"
    /\ pm' = [pm EXCEPT !.ahbmask_dmac = FALSE]
    /\ pc' = "freed"
    /\ UNCHANGED <<dmac, WRITEBACK, handles, ret, nsplit, swrst_read, rt>>

-----------------------------------------------------------------------------
(* Specifications                                                          *)

\* The statements of init and free that are in progress.
Step ==
    \/ init_apbbmask
    \/ swreset_set
    \/ swreset_read
    \/ swreset_test
    \/ init_baseaddr
    \/ init_wrbaddr
    \/ init_lvlen
    \/ init_dmaenable
    \/ free_apbbmask
    \/ free_ahbmask

Toggle ==
    \/ \E enabled \in BOOLEAN : level_0_enabled(enabled)
    \/ \E enabled \in BOOLEAN : level_1_enabled(enabled)
    \/ \E enabled \in BOOLEAN : level_2_enabled(enabled)
    \/ \E enabled \in BOOLEAN : level_3_enabled(enabled)
    \/ \E enabled \in BOOLEAN : level_0_round_robin(enabled)
    \/ \E enabled \in BOOLEAN : level_1_round_robin(enabled)
    \/ \E enabled \in BOOLEAN : level_2_round_robin(enabled)
    \/ \E enabled \in BOOLEAN : level_3_round_robin(enabled)

Next ==
    \/ init_ahbmask
    \/ Step
    \/ hw_reset
    \/ Toggle
    \/ split
    \/ free_dmaenable

Spec == Init /\ [][Next]_vars

\* The processor keeps executing a call of init or free that is in progress;
\* nothing is assumed of the hardware.
FairSpec == Spec /\ WF_vars(Step)


\* As FairSpec, and the hardware completes every reset requested of it: it
\* eventually clears swrst once the bit is set.
LiveSpec == Spec /\ WF_vars(Step) /\ WF_vars(hw_reset)

\* The caller starts a round trip over the levels of m: from here on the
\* (idle) observer follows the calls; the registers are as the caller found
\* them.
begin_round_trip ==
    /\ pc = "ready"
    /\ rt.kind = "none"
    /\ \E kind \in {"lvlen", "rrlvlen"}, m \in SUBSET Levels :
          rt' = [kind |-> kind, phase |-> IF m = {} THEN "done" ELSE "on",
                 m |-> m, todo |-> m, pre |-> dmac]
    /\ UNCHANGED <<pc, dmac, pm, WRITEBACK, handles, ret, nsplit, swrst_read>>

\* The lifecycle with the round-trip observer switched on.  split is left
\* out of it: it reads and writes no register.
RtNext ==
    \/ init_ahbmask
    \/ Step
    \/ hw_reset
    \/ Toggle
    \/ free_dmaenable
    \/ begin_round_trip

RtSpec == Init /\ [][RtNext]_vars

-----------------------------------------------------------------------------
(* Claims                                                                  *)

AllLevelsEnabled(ctrl) == \A i \in Levels : lvlen(ctrl)[i]

\* C1: split is accepted at most once per DmaController instance: the number
\* of calls of split that returned handles on the current controller never
\* exceeds one.
C1_SplitAtMostOnce == nsplit <= 1

\* C2: for each channel index there is at most one live Channel handle in
\* every reachable state.
C2_OneHandlePerChannel == \A i \in ChannelIds : handles[i] <= 1

\* C3: whenever init returns, whatever the registers held before, baseaddr
\* and wrbaddr hold the addresses of the two static tables, the four
\* level-enable bits and the DMA-enable bit are set, and swrst is clear.
C3_InitPostcondition ==
    [][(pc # "ready" /\ pc' = "ready") =>
         /\ dmac'.baseaddr = DescriptorSectionAddr
         /\ dmac'.wrbaddr = WritebackAddr
         /\ AllLevelsEnabled(dmac'.ctrl)
         /\ dmac'.ctrl.dmaenable
         /\ ~dmac'.ctrl.swrst]_vars

\* init has returned on registers that held other contents before (crcenable
\* and the LVLPRI fields survive from them), and nothing was called since.
C3_Witness ==
    /\ pc = "ready"
    /\ nsplit = 0
    /\ dmac.ctrl.crcenable
    /\ dmac.prictrl0.lvlpri = "NONZERO"
    /\ dmac.baseaddr = DescriptorSectionAddr
    /\ dmac.wrbaddr = WritebackAddr
    /\ AllLevelsEnabled(dmac.ctrl)
    /\ dmac.ctrl.dmaenable

\* C4: whatever toggles ran between init and free, the register block free
\* returns has dmaenable clear, and both DMAC clock mask bits are clear.
C4_FreePostcondition ==
    pc = "freed" =>
        /\ ~dmac.ctrl.dmaenable
        /\ ~pm.ahbmask_dmac
        /\ ~pm.apbbmask_dmac

\* free has returned after toggles had changed both masks (the registers
\* still show them, the hardware not having reset them).
C4_Witness ==
    /\ pc = "freed"
    /\ ~dmac.ctrl.lvlen0 /\ dmac.ctrl.lvlen1
    /\ dmac.prictrl0.rrlvlen2 /\ ~dmac.prictrl0.rrlvlen3
    /\ ~dmac.ctrl.dmaenable

\* C5 as stated: after level_i_enabled(true) for each i of m and then
\* level_i_enabled(false) for each i of m, the four level-enable bits are
\* what they were before the first call.
C5_RoundTripRestores ==
    (rt.kind = "lvlen" /\ rt.phase = "done") =>
        lvlen(dmac.ctrl) = lvlen(rt.pre.ctrl)

\* C5 amended: after that round trip every level of m is disabled and every
\* other level-enable bit is what it was; the rest of the register block is
\* unchanged.  (So the bits are restored exactly when no level of m was
\* enabled before.)
C5_RoundTripClears ==
    (rt.kind = "lvlen" /\ rt.phase = "done") =>
        /\ \A i \in Levels :
              lvlen(dmac.ctrl)[i] = (lvlen(rt.pre.ctrl)[i] /\ i \notin rt.m)
        /\ (lvlen(dmac.ctrl) = lvlen(rt.pre.ctrl)) <=>
              (\A i \in rt.m : ~lvlen(rt.pre.ctrl)[i])
        /\ dmac.ctrl.swrst = rt.pre.ctrl.swrst
        /\ dmac.ctrl.dmaenable = rt.pre.ctrl.dmaenable
        /\ dmac.ctrl.crcenable = rt.pre.ctrl.crcenable
        /\ dmac.prictrl0 = rt.pre.prictrl0

\* A round trip over levels 1 and 3 has completed, level 1 having been
\* enabled before it and level 3 not.
C5_Witness ==
    /\ rt.kind = "lvlen" /\ rt.phase = "done"
    /\ rt.m = {1, 3}
    /\ lvlen(rt.pre.ctrl)[1] /\ ~lvlen(rt.pre.ctrl)[3]

\* C6 as stated: after level_i_round_robin(true) for each i of m and then
\* level_i_round_robin(false) for each i of m, prictrl0 is what it was
\* before the first call.
C6_RoundTripRestores ==
    (rt.kind = "rrlvlen" /\ rt.phase = "done") =>
        dmac.prictrl0 = rt.pre.prictrl0

\* C6 amended: after that round trip every level of m has static
\* arbitration, and every other bit of prictrl0 (the other round-robin bits
\* and the LVLPRI fields) is what it was; ctrl is unchanged.  (So prictrl0
\* is restored exactly when no level of m was round-robin before.)
C6_RoundTripClears ==
    (rt.kind = "rrlvlen" /\ rt.phase = "done") =>
        /\ \A i \in Levels :
              rrlvlen(dmac.prictrl0)[i] = (rrlvlen(rt.pre.prictrl0)[i] /\ i \notin rt.m)
        /\ dmac.prictrl0.lvlpri = rt.pre.prictrl0.lvlpri
        /\ (dmac.prictrl0 = rt.pre.prictrl0) <=>
              (\A i \in rt.m : ~rrlvlen(rt.pre.prictrl0)[i])
        /\ dmac.ctrl = rt.pre.ctrl

\* A round trip over levels 0 and 2 has completed, level 2 having been
\* round-robin before it and level 0 not, with nonzero LVLPRI fields.
C6_Witness ==
    /\ rt.kind = "rrlvlen" /\ rt.phase = "done"
    /\ rt.m = {0, 2}
    /\ rrlvlen(rt.pre.prictrl0)[2] /\ ~rrlvlen(rt.pre.prictrl0)[0]
    /\ rt.pre.prictrl0.lvlpri = "NONZERO"

\* What a toggle leaves alone: everything but the register block.
ToggleFrame == UNCHANGED <<pc, pm, WRITEBACK, handles, ret, nsplit, swrst_read>>

\* C7: level_i_enabled(b) changes at most field lvlen<i> of ctrl, and
\* level_i_round_robin(b) at most field rrlvlen<i> of prictrl0; every other
\* field of the register block is unchanged.
C7_ToggleFrame ==
    [][\A b \in BOOLEAN :
        /\ level_0_enabled(b) =>
             ToggleFrame /\ dmac' = [dmac EXCEPT !.ctrl.lvlen0 = dmac'.ctrl.lvlen0]
        /\ level_1_enabled(b) =>
             ToggleFrame /\ dmac' = [dmac EXCEPT !.ctrl.lvlen1 = dmac'.ctrl.lvlen1]
        /\ level_2_enabled(b) =>
             ToggleFrame /\ dmac' = [dmac EXCEPT !.ctrl.lvlen2 = dmac'.ctrl.lvlen2]
        /\ level_3_enabled(b) =>
             ToggleFrame /\ dmac' = [dmac EXCEPT !.ctrl.lvlen3 = dmac'.ctrl.lvlen3]
        /\ level_0_round_robin(b) =>
             ToggleFrame /\ dmac' = [dmac EXCEPT !.prictrl0.rrlvlen0 = dmac'.prictrl0.rrlvlen0]
        /\ level_1_round_robin(b) =>
             ToggleFrame /\ dmac' = [dmac EXCEPT !.prictrl0.rrlvlen1 = dmac'.prictrl0.rrlvlen1]
        /\ level_2_round_robin(b) =>
             ToggleFrame /\ dmac' = [dmac EXCEPT !.prictrl0.rrlvlen2 = dmac'.prictrl0.rrlvlen2]
        /\ level_3_round_robin(b) =>
             ToggleFrame /\ dmac' = [dmac EXCEPT !.prictrl0.rrlvlen3 = dmac'.prictrl0.rrlvlen3]
      ]_vars

\* Since init, level 0 alone has been disabled and level 2 alone been made
\* round-robin: all else is as init and the hardware reset left it.
C7_Witness ==
    /\ pc = "ready"
    /\ dmac.ctrl = [CtrlReset EXCEPT !.dmaenable = TRUE, !.lvlen1 = TRUE,
                                    !.lvlen2 = TRUE, !.lvlen3 = TRUE]
    /\ dmac.prictrl0 = [Prictrl0Reset EXCEPT !.rrlvlen2 = TRUE]
    /\ dmac.baseaddr = DescriptorSectionAddr
    /\ dmac.wrbaddr = WritebackAddr

\* C8: the wait for the software reset is bounded: once init or free waits on
\* swrst, the call returns, whether or not the hardware ever clears the bit.
C8_ResetWaitReturns ==
    (pc \in {"init_wait", "free_wait"}) ~> (pc \in {"ready", "freed"})

\* C9: the value a call of split returns holds exactly one handle for each
\* channel index 0 .. NumChannels-1 and no other, each Uninitialized.
C9_SplitResult ==
    ret # <<>> =>
        /\ Len(ret) = NumChannels
        /\ \A i \in ChannelIds : Cardinality({k \in DOMAIN ret : ret[k].id = i}) = 1
        /\ \A k \in DOMAIN ret : ret[k].id \in ChannelIds
        /\ \A k \in DOMAIN ret : ret[k].state = "Uninitialized"
        /\ \A i \in ChannelIds : handles[i] >= 1

\* split has been called once on the current controller and has returned.
C9_Witness ==
    /\ pc = "ready"
    /\ nsplit = 1
    /\ Len(ret) = NumChannels
    /\ \A i \in ChannelIds : handles[i] = 1

\* C10: once init has returned, and through any toggles and calls of split,
\* every writeback slot (no channel is ever triggered here) is all-zero.
C10_WritebackUntouched ==
    pc = "ready" => \A i \in ChannelIds : WRITEBACK[i] = ZeroDescriptor

\* init has returned, wrbaddr points at the table, and toggles and a split
\* have run since.
C10_Witness ==
    /\ pc = "ready"
    /\ dmac.wrbaddr = WritebackAddr
    /\ nsplit = 1
    /\ ~dmac.ctrl.lvlen3
    /\ dmac.prictrl0.rrlvlen1
    /\ \A i \in ChannelIds : WRITEBACK[i] = ZeroDescriptor


\* Positions inside a call of init, and inside a call of free, after its
\* first statement.
InitInProgress ==
    {"init_apbbmask", "init_swreset", "init_wait", "init_test",
     "init_baseaddr", "init_wrbaddr", "init_lvlen", "init_dmaenable"}
FreeInProgress ==
    {"free_swreset", "free_wait", "free_test", "free_apbbmask", "free_ahbmask"}

\* The software reset is over and both base-address registers hold the
\* addresses of the static tables.
Configured(d) ==
    /\ ~d.ctrl.swrst
    /\ d.baseaddr = DescriptorSectionAddr
    /\ d.wrbaddr = WritebackAddr

\* C11 as stated, for the states from the first statement of init on: if
\* dmaenable is set, the software reset has completed and both base-address
\* registers hold the addresses of the static tables.
C11_EnabledImpliesConfigured ==
    (pc # "pac" /\ dmac.ctrl.dmaenable) => Configured(dmac)

\* C11 amended: dmaenable is set (goes from clear to set) only by init's
\* last statement, when the reset has completed and both base-address
\* registers hold the table addresses; from init's return until free has
\* returned, dmaenable set implies just that; software writes each
\* base-address register only at init's one statement for it, and between
\* init's return and the call of free neither register changes.  (Inside
\* init, before those statements, dmaenable may be set already: the register
\* block may be handed to init with it set.)
C11_EnabledOnlyWhenConfigured ==
    [][/\ (~dmac.ctrl.dmaenable /\ dmac'.ctrl.dmaenable) =>
              (pc = "init_dmaenable" /\ Configured(dmac'))
       /\ (pc' \in {"ready", "freed"} \cup FreeInProgress /\ dmac'.ctrl.dmaenable) =>
              Configured(dmac')
       /\ (dmac'.baseaddr # dmac.baseaddr) =>
              (pc = "init_baseaddr" \/ dmac.ctrl.swrst)
       /\ (dmac'.wrbaddr # dmac.wrbaddr) =>
              (pc = "init_wrbaddr" \/ dmac.ctrl.swrst)
       /\ (pc = "ready" /\ pc' = "ready") =>
              (dmac'.baseaddr = dmac.baseaddr /\ dmac'.wrbaddr = dmac.wrbaddr)
      ]_vars

\* init was handed registers with dmaenable (and crcenable) set and other
\* base addresses, has returned, and split has been called twice since.
C11_Witness ==
    /\ pc = "ready"
    /\ dmac.ctrl.dmaenable
    /\ dmac.ctrl.crcenable
    /\ Configured(dmac)
    /\ nsplit = 2


\* The statements of init and free that read or write a DMAC register.
DmacAccess ==
    \/ swreset_set
    \/ swreset_read
    \/ init_baseaddr
    \/ init_wrbaddr
    \/ init_lvlen
    \/ init_dmaenable
    \/ free_dmaenable

ClockingEnabled == pm.ahbmask_dmac /\ pm.apbbmask_dmac

\* C12: init and free access a DMAC register only while both DMAC clock
\* mask bits are set; free issues its software reset only after it has
\* cleared dmaenable, and clears a clock mask bit only after that reset's
\* wait has seen swrst clear; no other statement clears a clock mask bit.
C12_AccessOnlyWhileClocked ==
    [][/\ DmacAccess => ClockingEnabled
       /\ (swreset_set /\ pc = "free_swreset") => ~dmac.ctrl.dmaenable
       /\ (free_apbbmask \/ free_ahbmask) =>
              (~dmac.ctrl.dmaenable /\ ~dmac.ctrl.swrst /\ ~swrst_read)
       /\ ((pm.apbbmask_dmac /\ ~pm'.apbbmask_dmac) \/
           (pm.ahbmask_dmac /\ ~pm'.ahbmask_dmac)) =>
              pc \in {"free_apbbmask", "free_ahbmask"}
      ]_vars

\* free, after its reset has completed, has cleared the APB mask bit and is
\* about to clear the AHB one.
C12_Witness ==
    /\ pc = "free_ahbmask"
    /\ ~pm.apbbmask_dmac
    /\ pm.ahbmask_dmac
    /\ dmac = DmacReset
    /\ nsplit = 1


\* C13: if the hardware eventually clears swrst once it is set, every call
\* of init returns an initialized controller, every call of free returns the
\* register block, and swrst is clear whenever either has returned.
C13_InitAndFreeReturn ==
    /\ (pc \in InitInProgress) ~> (pc = "ready")
    /\ (pc \in FreeInProgress) ~> (pc = "freed")
    /\ [](pc \in {"ready", "freed"} => ~dmac.ctrl.swrst)
    /\ [][(pc \in InitInProgress /\ pc' = "ready") => ~dmac'.ctrl.swrst]_vars
    /\ [][(pc \in FreeInProgress /\ pc' = "freed") => ~dmac'.ctrl.swrst]_vars

\* free has returned, after two calls of split, the register block as the
\* hardware's reset left it, and both clock mask bits are clear.
C13_Witness ==
    /\ pc = "freed"
    /\ dmac = DmacReset
    /\ ~swrst_read
    /\ ~pm.ahbmask_dmac /\ ~pm.apbbmask_dmac
    /\ nsplit = 2


\* C14: while a DmaController exists and free has not been called, dmaenable
\* and both clock mask bits are set; no toggle and no split changes them, and
\* the only step from there that clears dmaenable is free's first statement.
C14_EnabledUntilFree ==
    [][/\ pc' = "ready" => (dmac'.ctrl.dmaenable /\ ClockingEnabled')
       /\ (Toggle \/ split) =>
              (dmac'.ctrl.dmaenable = dmac.ctrl.dmaenable /\ pm' = pm)
       /\ (pc = "ready" /\ dmac.ctrl.dmaenable /\ ~dmac'.ctrl.dmaenable) =>
              pc' = "free_swreset"
       /\ (pc = "ready" /\ ClockingEnabled /\ ~ClockingEnabled') => FALSE
      ]_vars

\* Since init returned, every level has been disabled and made round-robin
\* and split has been called twice; the controller is still enabled and
\* clocked.
C14_Witness ==
    /\ pc = "ready"
    /\ \A i \in Levels : ~lvlen(dmac.ctrl)[i] /\ rrlvlen(dmac.prictrl0)[i]
    /\ nsplit = 2
    /\ dmac.ctrl.dmaenable
    /\ ClockingEnabled


\* The eight toggles as functions of the register block: kind and level.
ToggleIds == {"lvlen", "rrlvlen"} \X Levels

apply_toggle(t, d, enabled) ==
    CASE t = <<"lvlen", 0>> -> modify_lvlen0(d, enabled)
      [] t = <<"lvlen", 1>> -> modify_lvlen1(d, enabled)
      [] t = <<"lvlen", 2>> -> modify_lvlen2(d, enabled)
      [] t = <<"lvlen", 3>> -> modify_lvlen3(d, enabled)
      [] t = <<"rrlvlen", 0>> -> modify_rrlvlen0(d, enabled)
      [] t = <<"rrlvlen", 1>> -> modify_rrlvlen1(d, enabled)
      [] t = <<"rrlvlen", 2>> -> modify_rrlvlen2(d, enabled)
      [] t = <<"rrlvlen", 3>> -> modify_rrlvlen3(d, enabled)

toggle_bit(t, d) ==
    IF t[1] = "lvlen" THEN lvlen(d.ctrl)[t[2]] ELSE rrlvlen(d.prictrl0)[t[2]]

\* C15: whatever the registers of an initialized controller hold, each toggle
\* leaves its bit at the requested value; calling it twice with the same
\* argument gives the registers that calling it once gives; and two toggles
\* for different levels give the same registers in either order.  Each call
\* of a toggle in a run ends with its bit at the requested value.
C15_ToggleSetsIdempotentCommutes ==
    /\ [](pc = "ready" =>
            \A t \in ToggleIds, b \in BOOLEAN :
                /\ toggle_bit(t, apply_toggle(t, dmac, b)) = b
                /\ apply_toggle(t, apply_toggle(t, dmac, b), b) = apply_toggle(t, dmac, b)
                /\ \A u \in ToggleIds, c \in BOOLEAN :
                      t[2] # u[2] =>
                          apply_toggle(u, apply_toggle(t, dmac, b), c)
                            = apply_toggle(t, apply_toggle(u, dmac, c), b))
    /\ [][\A b \in BOOLEAN :
            /\ level_0_enabled(b) => dmac'.ctrl.lvlen0 = b
            /\ level_1_enabled(b) => dmac'.ctrl.lvlen1 = b
            /\ level_2_enabled(b) => dmac'.ctrl.lvlen2 = b
            /\ level_3_enabled(b) => dmac'.ctrl.lvlen3 = b
            /\ level_0_round_robin(b) => dmac'.prictrl0.rrlvlen0 = b
            /\ level_1_round_robin(b) => dmac'.prictrl0.rrlvlen1 = b
            /\ level_2_round_robin(b) => dmac'.prictrl0.rrlvlen2 = b
            /\ level_3_round_robin(b) => dmac'.prictrl0.rrlvlen3 = b
         ]_vars

\* Toggles have left the level-enable bits and the round-robin bits
\* alternating, on registers init had been handed with other contents.
C15_Witness ==
    /\ pc = "ready"
    /\ ~dmac.ctrl.lvlen0 /\ dmac.ctrl.lvlen1 /\ ~dmac.ctrl.lvlen2 /\ dmac.ctrl.lvlen3
    /\ dmac.prictrl0.rrlvlen0 /\ ~dmac.prictrl0.rrlvlen1
    /\ dmac.prictrl0.rrlvlen2 /\ ~dmac.prictrl0.rrlvlen3
    /\ dmac.ctrl.crcenable
    /\ nsplit = 0

=============================================================================
